---- MODULE Spec2Model ----
(***************************************************************************)
(* Sahr Auto Detailing plugins: the CRM store (sahr-crm), the scheduler    *)
(* (sahr-scheduler) and the finance sync (sahr-finance-sync), which share  *)
(* the Firestore collections sahr_bookings, sahr_customers, transactions.  *)
(*                                                                         *)
(* Dates are day numbers, times of day are minutes after midnight, and a   *)
(* timestamp is day * 1440 + minutes.  A field a document does not have is *)
(* Absent (numbers) or NoValue (strings).                                  *)
(***************************************************************************)
EXTENDS Integers, Sequences, FiniteSets, TLC

Absent == 0 - 1
NoValue == "none"
MinutesPerDay == 1440

(***************************************************************************)
(* Bounds of the model.                                                    *)
(***************************************************************************)
MaxDay == 2                 \* calendar days 1..MaxDay carry documents and queries
MaxTx == 4                  \* ledger documents the bounded store can hold
MaxBulk == 2                \* length of a bulk_sync bookingIds list

Days == 1..MaxDay
SeedIds == {1, 2}           \* documents the shared store holds at start
CrmIds == {3}               \* ids addDoc hands to CRM-created bookings
MissingIds == {9}           \* ids no document has
CustomerIds == {1}

Statuses == {"scheduled", "confirmed", "in_progress", "completed", "cancelled", "no_show"}

(***************************************************************************)
(* Scheduler constants.                                                    *)
(***************************************************************************)
SERVICE_DURATIONS ==
  [full_detail |-> 180, interior |-> 90, exterior |-> 60, coating |-> 300, wash |-> 45]
BUFFER_MINUTES == 30
defaultServiceDuration == 180
workingHoursStart == 9
workingHoursEnd == 21

VARIABLES
  bookings,      \* sahr_bookings: id -> document
  customers,     \* sahr_customers: id -> document
  ledger,        \* transactions: sequence of documents, in write order
  calls,         \* in-flight sahr_finance_sync_booking invocations
  response       \* what the last tool call returned (or that it threw)

vars == <<bookings, customers, ledger, calls, response>>

NoResponse == [tool |-> "none", thrown |-> FALSE]

(***************************************************************************)
(* Firestore primitives.                                                   *)
(***************************************************************************)
\* getDoc(...).exists()
Exists(coll, id) == id \in DOMAIN coll

\* updateDoc merges fields into an existing document; it rejects (throws
\* not-found) when the document does not exist.
UpdateDocOk(coll, id) == Exists(coll, id)

UpdateDoc(coll, id, fields) ==
  [coll EXCEPT ![id] = [f \in DOMAIN @ |-> IF f \in DOMAIN fields THEN fields[f] ELSE @[f]]]

\* addDoc stores a new document under a fresh id.
AddDoc(coll, id, document) == coll @@ (id :> document)

(***************************************************************************)
(* Scheduler helpers.                                                      *)
(***************************************************************************)
\* SERVICE_DURATIONS[params.serviceType || "full_detail"] || config.defaultServiceDuration
ServiceDuration(serviceType) ==
  LET key == IF serviceType = NoValue THEN "full_detail" ELSE serviceType
  IN  IF key \in DOMAIN SERVICE_DURATIONS
        THEN SERVICE_DURATIONS[key]
        ELSE defaultServiceDuration

\* parseDateTime(dateStr, timeStr)
parseDateTime(date, time) == date * MinutesPerDay + time

addMinutes(t, minutes) == t + minutes

\* Math.ceil(serviceDuration / 60)
CeilHours(minutes) == (minutes + 59) \div 60

\* Calendar: an instant is a number of hours, 24 * day + hour in UTC, where day 1
\* is 2026-01-01.
HoursPerDay == 24

REBOOKING_INTERVALS ==
  ("weekly" :> 7) @@ ("biweekly" :> 14) @@ ("monthly" :> 30) @@
  ("every_1.5_months" :> 45) @@ ("every_2_months" :> 60) @@ ("quarterly" :> 90)

MonthLengths == <<31, 28, 31, 30, 31, 30, 31, 31, 30, 31, 30, 31>>

\* the day number of the first day of month m of 2026
RECURSIVE MonthStart(_)
MonthStart(m) == IF m = 1 THEN 1 ELSE MonthStart(m - 1) + MonthLengths[m - 1]

\* the calendar month (1..12) of a day of 2026
MonthOf(day) ==
  CHOOSE m \in 1..12 : MonthStart(m) <= day /\ day < MonthStart(m) + MonthLengths[m]

\* the host's time zone: UTC, or America/Edmonton (UTC-7, and UTC-6 from
\* 2026-03-08 02:00 to 2026-11-01 02:00 local time)
Zones == {"UTC", "America/Edmonton"}
DstStartDay == MonthStart(3) + 7
DstEndDay == MonthStart(11)

\* hours to add to a UTC instant to get the local wall clock
UtcOffset(zone, t) ==
  IF zone = "UTC" THEN 0
  ELSE IF t >= DstStartDay * HoursPerDay + 9 /\ t < DstEndDay * HoursPerDay + 8
         THEN 0 - 6 ELSE 0 - 7

ToLocal(zone, t) == t + UtcOffset(zone, t)

\* the UTC instant of a local wall clock reading
FromLocal(zone, wall) ==
  IF zone = "UTC" THEN wall
  ELSE IF wall >= DstStartDay * HoursPerDay + 3 /\ wall < DstEndDay * HoursPerDay + 2
         THEN wall + 6 ELSE wall + 7

\* new Date("YYYY-MM-DD"): midnight UTC of that date
ParseDate(date) == date * HoursPerDay

\* date.toISOString().split("T")[0]: the UTC date of an instant
formatDate(t) == t \div HoursPerDay

\* d.setDate(d.getDate() + days): the same local wall-clock time, days later
AddLocalDays(zone, t, days) == FromLocal(zone, ToLocal(zone, t) + days * HoursPerDay)

\* new Date().getMonth() + 1
CurrentMonth(zone, now) == MonthOf(ToLocal(zone, now) \div HoursPerDay)

\* Variant: a winter that ends with February
getCurrentSeasonShortWinter(month) ==
  IF month >= 11 \/ month <= 2 THEN "winter"
  ELSE IF month >= 5 /\ month <= 9 THEN "summer"
  ELSE "shoulder"

getCurrentSeason(month) ==
  IF month >= 11 \/ month <= 3 THEN "winter"
  ELSE IF month >= 5 /\ month <= 9 THEN "summer"
  ELSE "shoulder"

getSeasonalLocationSuggestion(season) ==
  CASE season = "winter" -> "wash_bay"
    [] season = "summer" -> "customer_home"
    [] season = "shoulder" -> "customer_home"

\* where("appointmentDate", ">=", from), where("appointmentDate", "<=", to),
\* where("status", "in", statuses): a document without the field never matches.
QueryBookings(store, from, to, statuses) ==
  {id \in DOMAIN store :
     /\ store[id].appointmentDate # Absent
     /\ store[id].appointmentDate >= from
     /\ store[id].appointmentDate <= to
     /\ store[id].status \in statuses}

\* orderBy("appointmentDate"), orderBy("appointmentTime"), then document id
BookingBefore(store, a, b) ==
  LET da == store[a].appointmentDate  db == store[b].appointmentDate
      ta == store[a].appointmentTime  tb == store[b].appointmentTime
  IN  \/ da < db
      \/ da = db /\ ta < tb
      \/ da = db /\ ta = tb /\ a < b

RECURSIVE OrderBookings(_, _)
OrderBookings(store, ids) ==
  IF ids = {} THEN <<>>
  ELSE LET first == CHOOSE a \in ids : \A b \in ids \ {a} : BookingBefore(store, a, b)
       IN  <<first>> \o OrderBookings(store, ids \ {first})

(***************************************************************************)
(* sahr_scheduler_check_availability                                       *)
(***************************************************************************)
BlockingStatusesAvailability == {"scheduled", "confirmed", "in_progress"}

\* Variant: an overlap test that only asks whether the slot starts inside the booking
OverlapsStartOnly(store, b, slotStart, slotEnd, serviceDuration) ==
  LET bookingStart == parseDateTime(store[b].appointmentDate, store[b].appointmentTime)
      bookingEnd == addMinutes(bookingStart, serviceDuration + BUFFER_MINUTES)
  IN  slotStart < bookingEnd /\ slotStart >= bookingStart

\* Variant: an overlap test on closed intervals, touching intervals conflict
OverlapsClosed(store, b, slotStart, slotEnd, serviceDuration) ==
  LET bookingStart == parseDateTime(store[b].appointmentDate, store[b].appointmentTime)
      bookingEnd == addMinutes(bookingStart, serviceDuration + BUFFER_MINUTES)
  IN  slotStart <= bookingEnd /\ slotEnd >= bookingStart

\* the overlap test of one slot against one existing booking
Overlaps(store, b, slotStart, slotEnd, serviceDuration) ==
  LET bookingStart == parseDateTime(store[b].appointmentDate, store[b].appointmentTime)
      bookingEnd == addMinutes(bookingStart, serviceDuration + BUFFER_MINUTES)
  IN  slotStart < bookingEnd /\ slotEnd > bookingStart

\* the first booking of dayBookings that overlaps the slot, 0 when none does
FirstConflict(store, dayBookings, slotStart, slotEnd, serviceDuration) ==
  LET hits == {i \in 1..Len(dayBookings) :
                 Overlaps(store, dayBookings[i], slotStart, slotEnd, serviceDuration)}
  IN  IF hits = {} THEN 0
      ELSE dayBookings[CHOOSE i \in hits : \A j \in hits : i <= j]

\* for (hour = start; hour <= end - serviceDuration / 60; hour++)
SlotHours(serviceDuration) ==
  {hour \in workingHoursStart..workingHoursEnd :
     hour * 60 <= workingHoursEnd * 60 - serviceDuration}

DaySlots(store, existingBookings, date, serviceDuration) ==
  LET dayBookings == SelectSeq(existingBookings, LAMBDA b : store[b].appointmentDate = date)
      hours == SlotHours(serviceDuration)
      slotOf(hour) ==
        LET slotStart == parseDateTime(date, hour * 60)
            slotEnd == addMinutes(slotStart, serviceDuration + BUFFER_MINUTES)
            conflict == FirstConflict(store, dayBookings, slotStart, slotEnd, serviceDuration)
        IN  [date |-> date, hour |-> hour, available |-> (conflict = 0), conflict |-> conflict]
  IN  [i \in 1..Cardinality(hours) |-> slotOf(workingHoursStart + i - 1)]

\* while (currentDate <= endDate) { dateStr = formatDate(currentDate); ...;
\*   currentDate.setDate(currentDate.getDate() + 1) }
\* currentDate and endDate are instants: the loop steps by one local day and
\* names each day by its UTC date.
RECURSIVE GenerateSlots(_, _, _, _, _, _)
GenerateSlots(store, existingBookings, currentDate, endDate, serviceDuration, zone) ==
  IF currentDate > endDate THEN <<>>
  ELSE DaySlots(store, existingBookings, formatDate(currentDate), serviceDuration)
         \o GenerateSlots(store, existingBookings, AddLocalDays(zone, currentDate, 1),
                          endDate, serviceDuration, zone)

\* Variant: a filter that lets every slot through
IsAvailableAlways(slot) == TRUE

\* slots.filter((s) => s.available)
IsAvailable(slot) == slot.available

CheckAvailabilityResult(store, date, endDateParam, serviceType, now, zone) ==
  LET endDate == IF endDateParam = Absent THEN date ELSE endDateParam
      serviceDuration == ServiceDuration(serviceType)
      existingBookings ==
        OrderBookings(store, QueryBookings(store, date, endDate, BlockingStatusesAvailability))
      slots == GenerateSlots(store, existingBookings, ParseDate(date), ParseDate(endDate),
                             serviceDuration, zone)
      availableSlots == SelectSeq(slots, IsAvailable)
      season == getCurrentSeason(CurrentMonth(zone, now))
  IN  [tool |-> "check_availability", thrown |-> FALSE,
       date |-> date, endDateParam |-> endDateParam, endDate |-> endDate,
       serviceType |-> serviceType,
       serviceDuration |-> serviceDuration,
       existingBookings |-> existingBookings,
       slots |-> slots,
       noAvailabilityText |-> (Len(availableSlots) = 0),
       now |-> now, zone |-> zone,
       season |-> season,
       suggestedLocation |-> getSeasonalLocationSuggestion(season)]

CheckServiceTypes == {NoValue, "wash", "coating", "interior"}
\* new Date() of a check_availability call: mid January, mid April, mid July
CheckNows == {(MonthStart(m) + 14) * HoursPerDay + 18 : m \in {1, 4, 7}}
CheckZones == {"America/Edmonton"}

\* the calls <<date, endDate, serviceType, now>>: in January every range over
\* the days that hold bookings and the two days around the start of daylight
\* saving time, for every service type; in the other seasons one call
CheckCalls ==
  LET ranges == (Days \X ({Absent} \cup Days)) \cup {<<DstStartDay, DstStartDay + 1>>}
      january == CHOOSE now \in CheckNows : \A other \in CheckNows : now <= other
  IN  {<<range[1], range[2], serviceType, january>> :
         range \in ranges, serviceType \in CheckServiceTypes}
      \cup {<<1, Absent, NoValue, now>> : now \in CheckNows}

CheckAvailability ==
  /\ \E call \in CheckCalls, zone \in CheckZones :
       response' = CheckAvailabilityResult(bookings, call[1], call[2], call[3], call[4], zone)
  /\ UNCHANGED <<bookings, customers, ledger, calls>>

(***************************************************************************)
(* sahr_scheduler_suggest_times                                            *)
(***************************************************************************)
BlockingStatusesSuggest == {"scheduled", "confirmed"}

Clock == {1}                \* the day "today" of a call

Weekdays == <<"sunday", "monday", "tuesday", "wednesday", "thursday", "friday", "saturday">>

\* getDayName(currentDate).toLowerCase()
DayName(day) == Weekdays[((day + 3) % 7) + 1]    \* day 1, 2026-01-01, is a Thursday

\* switch (params.urgency): startDate and endDate, copies of the instant today
\* moved by setDate(today.getDate() + n), that is by n local days
UrgencyStart(zone, today, urgency) ==
  IF urgency = "next_week" THEN AddLocalDays(zone, today, 7) ELSE today

UrgencyEnd(zone, today, urgency) ==
  CASE urgency = "asap" -> AddLocalDays(zone, today, 3)
    [] urgency = "this_week" -> AddLocalDays(zone, today, 7)
    [] urgency = "next_week" -> AddLocalDays(zone, today, 14)
    [] OTHER -> AddLocalDays(zone, today, 14)

timeRanges ==
  [morning |-> [start |-> 9, end |-> 12],
   afternoon |-> [start |-> 12, end |-> 17],
   evening |-> [start |-> 17, end |-> 21]]

\* timeRanges[params.preferredTimeRange || "afternoon"]
PreferredRange(preferredTimeRange) ==
  timeRanges[IF preferredTimeRange = NoValue THEN "afternoon" ELSE preferredTimeRange]

\* existingBookings.some(...) for one candidate hour
HasConflict(store, existingBookings, date, hour, serviceDuration) ==
  \E b \in existingBookings :
     /\ store[b].appointmentDate = date
     /\ LET bookingHour == store[b].appointmentTime \div 60
            bookingEnd == bookingHour + CeilHours(serviceDuration)
        IN  hour >= bookingHour /\ hour < bookingEnd

\* today and currentDate are instants; getDayName reads the local weekday
SlotScore(zone, today, currentDate, hour, preferredDays, urgency) ==
  LET dayName == DayName(ToLocal(zone, currentDate) \div HoursPerDay)
      dayMatch == ~preferredDays.given \/ dayName \in preferredDays.days
      daysFromNow == (currentDate - today) \div HoursPerDay
      urgent == IF urgency = "asap"
                  THEN (IF 30 - daysFromNow * 5 > 0 THEN 30 - daysFromNow * 5 ELSE 0)
                  ELSE 0
  IN  100 + (IF dayMatch THEN 20 ELSE 0) + urgent
          + (IF hour = 17 \/ hour = 18 THEN 10 ELSE 0)

\* for (hour = preferredRange.start; hour < preferredRange.end; hour++)
RECURSIVE DayCandidates(_, _, _, _, _, _, _, _, _, _)
DayCandidates(store, existingBookings, zone, today, currentDate, hour, lastHour, serviceDuration, preferredDays, urgency) ==
  IF hour >= lastHour THEN <<>>
  ELSE (IF HasConflict(store, existingBookings, formatDate(currentDate), hour, serviceDuration)
          THEN <<>>
          ELSE <<[date |-> formatDate(currentDate), hour |-> hour,
                  score |-> SlotScore(zone, today, currentDate, hour, preferredDays, urgency)]>>)
       \o DayCandidates(store, existingBookings, zone, today, currentDate, hour + 1, lastHour,
                        serviceDuration, preferredDays, urgency)

\* while (currentDate <= endDate) { dateStr = formatDate(currentDate); ...;
\*   currentDate.setDate(currentDate.getDate() + 1) }
RECURSIVE Candidates(_, _, _, _, _, _, _, _, _, _)
Candidates(store, existingBookings, zone, today, currentDate, endDate, range, serviceDuration, preferredDays, urgency) ==
  IF currentDate > endDate THEN <<>>
  ELSE DayCandidates(store, existingBookings, zone, today, currentDate, range.start, range.end,
                     serviceDuration, preferredDays, urgency)
       \o Candidates(store, existingBookings, zone, today, AddLocalDays(zone, currentDate, 1),
                     endDate, range, serviceDuration, preferredDays, urgency)

\* Variant: a sort that turns the order of equal scores around
TiedAtReversed(suggestions, score) ==
  LET tied == SelectSeq(suggestions, LAMBDA x : x.score = score)
  IN  [i \in 1..Len(tied) |-> tied[Len(tied) + 1 - i]]

\* the suggestions of one score, in the order they were pushed: Array.prototype.sort
\* is stable
TiedAt(suggestions, score) == SelectSeq(suggestions, LAMBDA x : x.score = score)

\* suggestions.sort((a, b) => b.score - a.score): a stable sort, descending
RECURSIVE SortByScore(_, _)
SortByScore(suggestions, scores) ==
  IF scores = {} THEN <<>>
  ELSE LET top == CHOOSE s \in scores : \A t \in scores : t <= s
       IN  TiedAt(suggestions, top) \o SortByScore(suggestions, scores \ {top})

\* Variant: the first four of the sorted list
TopFour(sorted) == SubSeq(sorted, 1, IF Len(sorted) < 4 THEN Len(sorted) ELSE 4)

\* suggestions.slice(0, 5)
TopFive(sorted) == SubSeq(sorted, 1, IF Len(sorted) < 5 THEN Len(sorted) ELSE 5)

SuggestTimesResult(store, today, zone, preferredDays, preferredTimeRange, serviceType, urgency) ==
  LET serviceDuration == ServiceDuration(serviceType)
      startDate == UrgencyStart(zone, today, urgency)
      endDate == UrgencyEnd(zone, today, urgency)
      existingBookings == QueryBookings(store, formatDate(startDate), formatDate(endDate),
                                        BlockingStatusesSuggest)
      suggestions == Candidates(store, existingBookings, zone, today, startDate, endDate,
                                PreferredRange(preferredTimeRange), serviceDuration,
                                preferredDays, urgency)
      sorted == SortByScore(suggestions, {suggestions[i].score : i \in 1..Len(suggestions)})
  IN  [tool |-> "suggest_times", thrown |-> FALSE,
       now |-> today, zone |-> zone,
       today |-> formatDate(today),
       startDate |-> formatDate(startDate), endDate |-> formatDate(endDate),
       preferredTimeRange |-> preferredTimeRange, serviceType |-> serviceType,
       serviceDuration |-> serviceDuration, urgency |-> urgency,
       preferredDays |-> preferredDays,
       existingBookings |-> existingBookings,
       candidates |-> suggestions,
       suggestions |-> TopFive(sorted),
       guidanceText |-> (Len(TopFive(sorted)) = 0)]

SuggestTimeRanges == {NoValue, "evening"}
SuggestServiceTypes == {NoValue, "coating"}
\* params.preferredDays: undefined, or an array of weekday names
NoPreferredDays == [given |-> FALSE, days |-> {}]
PreferredDays(days) == [given |-> TRUE, days |-> days]
SuggestPreferredDays == {NoPreferredDays, PreferredDays({"friday"})}

\* the calls <<new Date(), preferredDays, preferredTimeRange, serviceType, urgency>>:
\* at 18:00 UTC of the day "today" every combination of the parameters above
\* for an asap request, and every urgency and every time range once; and calls
\* in the first hour (UTC) of the day on which daylight saving time starts
SuggestCalls ==
  LET noon == {today * HoursPerDay + 18 : today \in Clock}
      dst == DstStartDay * HoursPerDay
  IN  (noon \X SuggestPreferredDays \X SuggestTimeRanges \X SuggestServiceTypes \X {"asap"})
      \cup {<<now, NoPreferredDays, NoValue, NoValue, urgency>> :
              now \in noon, urgency \in {NoValue, "this_week", "next_week", "flexible"}}
      \cup {<<now, NoPreferredDays, preferredTimeRange, NoValue, NoValue>> :
              now \in noon, preferredTimeRange \in {"morning", "afternoon", "evening"}}
      \cup {<<dst, NoPreferredDays, "evening", NoValue, urgency>> : urgency \in {NoValue, "asap"}}

SuggestTimes ==
  /\ \E call \in SuggestCalls, zone \in CheckZones :
       response' = SuggestTimesResult(bookings, call[1], zone, call[2], call[3], call[4],
                                      call[5])
  /\ UNCHANGED <<bookings, customers, ledger, calls>>

(***************************************************************************)
(* sahr_scheduler_suggest_rebooking                                        *)
(*                                                                         *)
(* The Date methods the code mixes are modelled by what they do:           *)
(* new Date("YYYY-MM-DD") and toISOString work in UTC, while getDate,      *)
(* setDate and getMonth work in the time zone of the host.                 *)
(***************************************************************************)
SuggestRebookingResult(lastBookingDate, frequency, now, zone) ==
  LET lastBooking == ParseDate(lastBookingDate)
      interval == REBOOKING_INTERVALS[IF frequency # NoValue THEN frequency ELSE "monthly"]
      suggested == AddLocalDays(zone, lastBooking, interval)
      suggestedDate == IF suggested < now THEN AddLocalDays(zone, now, 7) ELSE suggested
      season == getCurrentSeason(CurrentMonth(zone, now))
  IN  [tool |-> "suggest_rebooking", thrown |-> FALSE,
       lastBookingDate |-> lastBookingDate, frequency |-> frequency,
       now |-> now, zone |-> zone,
       suggestedDate |-> formatDate(suggestedDate),
       season |-> season, locationNote |-> (season = "winter")]

RebookLastDates == {1, MonthStart(3), MonthStart(7)}
RebookFrequencies == DOMAIN REBOOKING_INTERVALS \cup {NoValue}
\* new Date(): the middle of every month, and the first hours (UTC) of April
RebookNows ==
  {(MonthStart(m) + 14) * HoursPerDay + 18 : m \in 1..12}
  \cup {MonthStart(4) * HoursPerDay + 3}

SuggestRebooking ==
  /\ \E lastBookingDate \in RebookLastDates, frequency \in RebookFrequencies,
        now \in RebookNows, zone \in Zones :
       response' = SuggestRebookingResult(lastBookingDate, frequency, now, zone)
  /\ UNCHANGED <<bookings, customers, ledger, calls>>

(***************************************************************************)
(* sahr-crm: the store class and its tools                                 *)
(***************************************************************************)
NowStamps == {today * MinutesPerDay + 13 * 60 : today \in Clock}   \* new Date()

NewCustomerDoc == [priceTier |-> "standard", lastServiceAt |-> Absent, nextAppointmentAt |-> Absent]

\* the document SahrCRM.createBooking writes: the tool passes appointmentAt,
\* never appointmentDate / appointmentTime, no tip and no financeSynced field
\* (hasFinanceSynced tells whether the document holds the field; financeSynced
\* is what reading it gives, undefined reading as false)
CrmBookingDoc(customerId, serviceType, appointmentAt, price) ==
  [customerId |-> customerId, serviceType |-> serviceType, status |-> "scheduled",
   appointmentAt |-> appointmentAt, appointmentDate |-> Absent, appointmentTime |-> Absent,
   price |-> price, tip |-> Absent, tipAmount |-> Absent, paymentMethod |-> NoValue,
   completedAt |-> Absent, hasFinanceSynced |-> FALSE, financeSynced |-> FALSE,
   financeTransactionId |-> 0]

\* new Date(`${appointmentDate}T${appointmentTime}:00`)
AppointmentAt(appointmentDate, appointmentTime) ==
  appointmentDate * MinutesPerDay + appointmentTime

CreateTimes == {18 * 60}
CreateCustomerIds == CustomerIds
CreateServiceTypes == {"full_detail"}
CreatePrices == {100}

\* sahr_crm_create_booking -> SahrCRM.createBooking -> SahrCRM.updateCustomer
CrmCreateBooking ==
  \E customerId \in CreateCustomerIds, serviceType \in CreateServiceTypes,
     appointmentDate \in Days, appointmentTime \in CreateTimes, price \in CreatePrices :
    LET free == CrmIds \ DOMAIN bookings
        id == CHOOSE i \in free : \A j \in free : i <= j
        appointmentAt == AppointmentAt(appointmentDate, appointmentTime)
    IN  /\ free # {}
        /\ bookings' = AddDoc(bookings, id,
                              CrmBookingDoc(customerId, serviceType, appointmentAt, price))
        /\ IF UpdateDocOk(customers, customerId)
             THEN /\ customers' = UpdateDoc(customers, customerId,
                                            [nextAppointmentAt |-> appointmentAt])
                  /\ response' = [tool |-> "create_booking", thrown |-> FALSE,
                                  bookingId |-> id, appointmentDate |-> appointmentDate,
                                  appointmentTime |-> appointmentTime]
             ELSE /\ customers' = customers
                  /\ response' = [tool |-> "create_booking", thrown |-> TRUE,
                                  bookingId |-> id, appointmentDate |-> appointmentDate,
                                  appointmentTime |-> appointmentTime]
        /\ UNCHANGED <<ledger, calls>>

\* the fields sahr_crm_update_booking hands to SahrCRM.updateBooking
UpdateData(store, bookingId, status, reschedule, price, tip, now) ==
  LET f1 == IF status # NoValue THEN [status |-> status] ELSE <<>>
      f2 == IF price # Absent THEN [price |-> price] ELSE <<>>
      f3 == IF tip # Absent THEN [tip |-> tip] ELSE <<>>
      f4 == IF reschedule # Absent THEN [appointmentAt |-> reschedule] ELSE <<>>
      f5 == IF status = "completed" THEN [completedAt |-> now] ELSE <<>>
      f6 == IF Exists(store, bookingId)
              THEN [customerId |-> store[bookingId].customerId] ELSE <<>>
  IN  f1 @@ f2 @@ f3 @@ f4 @@ f5 @@ f6

UpdateStatuses == {"completed", "cancelled"}
UpdatePrices == {Absent}
UpdateTips == {Absent, 20}
UpdateReschedules == {Absent}

\* Variant: an update that never touches the customer
CascadesNever(data) == FALSE

\* if (data.status === "completed" && data.customerId)
CascadesLastService(data) ==
  /\ "status" \in DOMAIN data
  /\ data.status = "completed"
  /\ "customerId" \in DOMAIN data

\* the second new Date() of a call, read after the first: the same minute or the next
LaterStamps(now) == {now, now + 1}

\* sahr_crm_update_booking -> SahrCRM.updateBooking -> SahrCRM.updateCustomer
CrmUpdateBooking ==
  \E bookingId \in SeedIds \cup CrmIds \cup MissingIds, status \in UpdateStatuses,
     reschedule \in UpdateReschedules, price \in UpdatePrices, tip \in UpdateTips,
     now \in NowStamps :
    LET data == UpdateData(bookings, bookingId, status, reschedule, price, tip, now)
        thrown == [tool |-> "update_booking", thrown |-> TRUE, bookingId |-> bookingId,
                   status |-> status, found |-> Exists(bookings, bookingId)]
    IN  /\ IF ~UpdateDocOk(bookings, bookingId)
             THEN \* updateDoc rejects: the document does not exist
                  /\ UNCHANGED <<bookings, customers>>
                  /\ response' = thrown
             ELSE /\ bookings' = UpdateDoc(bookings, bookingId, data)
                  /\ IF CascadesLastService(data)
                       THEN IF UpdateDocOk(customers, data.customerId)
                              THEN /\ \E later \in LaterStamps(now) :
                                        customers' = UpdateDoc(customers, data.customerId,
                                                               [lastServiceAt |-> later])
                                   /\ response' = [thrown EXCEPT !.thrown = FALSE]
                              ELSE /\ customers' = customers
                                   /\ response' = thrown
                       ELSE /\ customers' = customers
                            /\ response' = [thrown EXCEPT !.thrown = FALSE]
        /\ UNCHANGED <<ledger, calls>>

UpdatePriceTiers == {"standard"}

\* sahr_crm_update_customer -> SahrCRM.updateCustomer, SahrCRM.getCustomer
CrmUpdateCustomer ==
  \E customerId \in CustomerIds \cup MissingIds, priceTier \in UpdatePriceTiers :
    /\ IF ~UpdateDocOk(customers, customerId)
         THEN /\ customers' = customers
              /\ response' = [tool |-> "update_customer", thrown |-> TRUE,
                              customerId |-> customerId, found |-> FALSE]
         ELSE /\ customers' = UpdateDoc(customers, customerId, [priceTier |-> priceTier])
              /\ response' = [tool |-> "update_customer", thrown |-> FALSE,
                              customerId |-> customerId, found |-> TRUE]
    /\ UNCHANGED <<bookings, ledger, calls>>

\* sahr_crm_get_customer_history -> SahrCRM.getCustomerHistory
CrmGetCustomerHistory ==
  \E customerId \in CustomerIds \cup MissingIds :
    /\ response' = [tool |-> "get_customer_history", thrown |-> FALSE,
                    customerId |-> customerId, found |-> Exists(customers, customerId),
                    bookings |-> {b \in DOMAIN bookings : bookings[b].customerId = customerId}]
    /\ UNCHANGED <<bookings, customers, ledger, calls>>

(***************************************************************************)
(* The scheduler over a store that the CRM also writes.                    *)
(***************************************************************************)
\* A booking document in the schema the scheduler and the finance sync read
\* (appointmentDate, appointmentTime, tipAmount).
StoredBooking(serviceType, status, appointmentDate, appointmentTime, price, tipAmount) ==
  [customerId |-> 1, serviceType |-> serviceType, status |-> status,
   appointmentAt |-> Absent, appointmentDate |-> appointmentDate,
   appointmentTime |-> appointmentTime,
   price |-> price, tip |-> Absent, tipAmount |-> tipAmount, paymentMethod |-> NoValue,
   completedAt |-> Absent, hasFinanceSynced |-> TRUE, financeSynced |-> FALSE,
   financeTransactionId |-> 0]

SchedSeedTimes == {18 * 60}
SchedSeedServiceTypes == {"coating"}
\* the three blocking statuses and one that is not
SchedSeedStatuses == {"scheduled", "confirmed", "in_progress", "cancelled"}

SchedSeedDocs ==
  {StoredBooking(serviceType, status, appointmentDate, appointmentTime, 100, Absent) :
     serviceType \in SchedSeedServiceTypes, status \in SchedSeedStatuses,
     appointmentDate \in Days, appointmentTime \in SchedSeedTimes}

StoresOf(docs) == UNION {[ids -> docs] : ids \in SUBSET SeedIds}

InitSched ==
  /\ bookings \in StoresOf(SchedSeedDocs)
  /\ customers = [c \in CustomerIds |-> NewCustomerDoc]
  /\ ledger = <<>>
  /\ calls = <<>>
  /\ response = NoResponse

NextSched ==
  \/ CheckAvailability
  \/ SuggestTimes
  \/ CrmCreateBooking

SpecSched == InitSched /\ [][NextSched]_vars

(***************************************************************************)
(* Claims about the scheduler.                                             *)
(***************************************************************************)
ActiveStatuses == {"scheduled", "confirmed", "in_progress"}

SeqElems(seq) == {seq[i] : i \in 1..Len(seq)}

\* the interval a stored booking occupies: its own service duration plus the buffer
OwnStart(b) == parseDateTime(bookings[b].appointmentDate, bookings[b].appointmentTime)
OwnEnd(b) == OwnStart(b) + ServiceDuration(bookings[b].serviceType) + BUFFER_MINUTES

\* the active bookings of the store on one date
ActiveOn(date) ==
  {b \in DOMAIN bookings :
     bookings[b].appointmentDate = date /\ bookings[b].status \in ActiveStatuses}

SlotStart(slot) == parseDateTime(slot.date, slot.hour * 60)
SlotEnd(slot) == SlotStart(slot) + response.serviceDuration + BUFFER_MINUTES

\* C1: no slot that check_availability reports available has an occupied interval
\* [slotStart, slotStart + requested duration + 30) that overlaps the occupied
\* interval [bookingStart, bookingStart + the booking's own duration + 30) of an
\* active booking on that date.
C1_AvailableSlotsAvoidBookings ==
  response.tool = "check_availability" =>
    \A slot \in SeqElems(response.slots) :
      slot.available =>
        \A b \in ActiveOn(slot.date) :
          ~(SlotStart(slot) < OwnEnd(b) /\ SlotEnd(slot) > OwnStart(b))

\* the case of C2: a one-day query for a 180 minute service, the date holding
\* exactly one active booking, at 18:00
C2_Case ==
  /\ response.tool = "check_availability"
  /\ response.serviceDuration = 180
  /\ response.date = response.endDate
  /\ Cardinality(ActiveOn(response.date)) = 1
  /\ \A b \in ActiveOn(response.date) : bookings[b].appointmentTime = 18 * 60

SlotsAt(hour) == {slot \in SeqElems(response.slots) : slot.hour = hour}

\* C2 as claimed: 18:00 and 19:00 are reported unavailable and every slot from
\* 09:00 through 17:00 is reported available.
C2_AsClaimed ==
  C2_Case =>
    /\ \A hour \in {18, 19} :
         SlotsAt(hour) # {} /\ \A slot \in SlotsAt(hour) : ~slot.available
    /\ \A hour \in 9..17 :
         SlotsAt(hour) # {} /\ \A slot \in SlotsAt(hour) : slot.available

\* C2 as amended: the slots generated are 09:00 to 18:00 (a 19:00 start would end
\* after working hours, so there is no 19:00 slot); 09:00 to 14:00 are available
\* and 15:00 to 18:00 are unavailable, because a 180 + 30 minute slot starting at
\* 15:00 or later runs into the 18:00 booking.
C2_Amended ==
  C2_Case =>
    /\ {slot.hour : slot \in SeqElems(response.slots)} = 9..18
    /\ Len(response.slots) = 10
    /\ \A slot \in SeqElems(response.slots) : slot.available <=> slot.hour <= 14

C2_Witness ==
  /\ C2_Case
  /\ \E slot \in SlotsAt(17) : ~slot.available
  /\ SlotsAt(19) = {}

\* bookings written by sahr_crm_create_booking and still scheduled
CrmScheduled ==
  {b \in DOMAIN bookings :
     bookings[b].appointmentAt # Absent /\ bookings[b].status = "scheduled"}

AtDay(b) == bookings[b].appointmentAt \div MinutesPerDay
AtHour(b) == (bookings[b].appointmentAt % MinutesPerDay) \div 60

\* C3: a booking created through sahr_crm_create_booking for date D at hour H is
\* listed by a later check_availability for D among the existing bookings with
\* the H:00 slot unavailable, and suggest_times never suggests (D, H).
C3_CrmBookingConsumed ==
  /\ response.tool = "check_availability" =>
       \A b \in CrmScheduled :
         (response.date <= AtDay(b) /\ AtDay(b) <= response.endDate) =>
           /\ b \in SeqElems(response.existingBookings)
           /\ \A slot \in SeqElems(response.slots) :
                (slot.date = AtDay(b) /\ slot.hour = AtHour(b)) => ~slot.available
  /\ response.tool = "suggest_times" =>
       \A b \in CrmScheduled :
         \A s \in SeqElems(response.suggestions) :
           ~(s.date = AtDay(b) /\ s.hour = AtHour(b))

\* the stored bookings inside a date range that should block
ActiveIn(from, to) == UNION {ActiveOn(date) : date \in from..to}

\* C4: in both tools a booking blocks slots exactly when its status is scheduled,
\* confirmed or in_progress: the bookings consulted are the active ones of the
\* range, the slot at an active booking's start is never offered, and a slot is
\* refused only where an active booking exists.
C4_ActiveBookingsBlock ==
  /\ response.tool = "check_availability" =>
       /\ SeqElems(response.existingBookings) = ActiveIn(response.date, response.endDate)
       /\ \A slot \in SeqElems(response.slots) :
            /\ ~slot.available => ActiveOn(slot.date) # {}
            /\ (\E b \in ActiveOn(slot.date) : bookings[b].appointmentTime = slot.hour * 60)
                 => ~slot.available
  /\ response.tool = "suggest_times" =>
       /\ response.existingBookings = ActiveIn(response.startDate, response.endDate)
       /\ \A s \in SeqElems(response.suggestions) :
            ~\E b \in ActiveOn(s.date) : bookings[b].appointmentTime = s.hour * 60

(***************************************************************************)
(* The scheduler over a busy calendar: two bookings on each of two days.   *)
(***************************************************************************)
BusyIds == 1..4
BusySeedTimes == {12 * 60, 13 * 60}
BusySeedStatuses == {"scheduled", "cancelled"}

BusySeedDocs(day) ==
  {StoredBooking("full_detail", "scheduled", day, appointmentTime, 100, Absent) :
     appointmentTime \in BusySeedTimes}
  \cup {StoredBooking("full_detail", status, day, 12 * 60, 100, Absent) :
          status \in BusySeedStatuses}

InitBusy ==
  /\ bookings \in [BusyIds -> UNION {BusySeedDocs(day) : day \in Days}]
  /\ \A id \in BusyIds : bookings[id].appointmentDate = (id + 1) \div 2
  /\ customers = [c \in CustomerIds |-> NewCustomerDoc]
  /\ ledger = <<>>
  /\ calls = <<>>
  /\ response = NoResponse

NextBusy ==
  \/ SuggestTimes
  \/ CheckAvailability

SpecBusy == InitBusy /\ [][NextBusy]_vars

\* the open candidate slots of the suggest_times call that answered last: the
\* (date, hour) pairs of its date range and time band that no queried booking blocks
OpenCandidates ==
  {c \in (response.startDate..response.endDate) \X (0..23) :
     /\ c[2] >= PreferredRange(response.preferredTimeRange).start
     /\ c[2] < PreferredRange(response.preferredTimeRange).end
     /\ ~HasConflict(bookings, response.existingBookings, c[1], c[2],
                     response.serviceDuration)}

\* the k of "the k-th entry equal to seq[i]"
Occurrence(seq, i) == Cardinality({k \in 1..i : seq[k] = seq[i]})

\* the place in the enumeration of the candidate returned as suggestion i
PickedAt(i) ==
  CHOOSE q \in 1..Len(response.candidates) :
    /\ response.candidates[q] = response.suggestions[i]
    /\ Occurrence(response.candidates, q) = Occurrence(response.suggestions, i)

Picked == {PickedAt(i) : i \in 1..Len(response.suggestions)}

NotPicked == (1..Len(response.candidates)) \ Picked

OverlapHits(slot) ==
  {b \in ActiveOn(slot.date) :
     /\ SlotStart(slot) < OwnStart(b) + response.serviceDuration + BUFFER_MINUTES
     /\ SlotEnd(slot) > OwnStart(b)}

\* C22: a slot of check_availability is unavailable exactly when some same-day
\* booking satisfies slotStart < bookingEnd and slotEnd > bookingStart, so
\* intervals that only touch do not conflict; the booking named as the reason
\* is an overlapping one that no other overlapping booking precedes in time.
C22_HalfOpenOverlap ==
  response.tool = "check_availability" =>
    \A slot \in SeqElems(response.slots) :
      /\ slot.available <=> OverlapHits(slot) = {}
      /\ ~slot.available =>
           /\ slot.conflict \in OverlapHits(slot)
           /\ \A b \in OverlapHits(slot) :
                bookings[slot.conflict].appointmentTime <= bookings[b].appointmentTime

\* one answer holds a slot that ends exactly where a booking starts, a slot
\* that starts exactly where a booking ends, both available, and a slot that
\* two bookings overlap, the later-stored one being the earlier in time
C22_Witness ==
  /\ response.tool = "check_availability"
  /\ \E slot \in SeqElems(response.slots) :
       /\ slot.available
       /\ \E b \in ActiveOn(slot.date) : SlotEnd(slot) = OwnStart(b)
  /\ \E slot \in SeqElems(response.slots) :
       /\ slot.available
       /\ \E b \in ActiveOn(slot.date) :
            SlotStart(slot) = OwnStart(b) + response.serviceDuration + BUFFER_MINUTES
  /\ \E slot \in SeqElems(response.slots) :
       /\ ~slot.available
       /\ \E b \in OverlapHits(slot) :
            /\ b < slot.conflict
            /\ bookings[slot.conflict].appointmentTime < bookings[b].appointmentTime

\* the (date, hour) grid the claim describes for the call that answered last
ClaimedGrid ==
  {g \in (response.date..response.endDate) \X (0..23) :
     /\ workingHoursStart <= g[2]
     /\ g[2] * 60 + response.serviceDuration <= workingHoursEnd * 60}

\* C23: check_availability generates exactly one slot for every date of
\* date..endDate (endDate defaulting to date) and every whole hour h with
\* workingHours.start <= h and h*60 + serviceDuration <= workingHours.end*60,
\* and no other slot; the buffer does not count against the end of the day.
C23_SlotGrid ==
  response.tool = "check_availability" =>
    /\ {<<slot.date, slot.hour>> : slot \in SeqElems(response.slots)} = ClaimedGrid
    /\ Len(response.slots) = Cardinality(ClaimedGrid)
    /\ response.endDate = IF response.endDateParam = Absent THEN response.date
                          ELSE response.endDateParam

\* the candidate pairs the claim describes for the suggest_times call that
\* answered last, today being the date the call gives its first day
ClaimedCandidates ==
  LET today == response.today
      first == IF response.urgency = "next_week" THEN today + 7 ELSE today
      last == CASE response.urgency = "asap" -> today + 3
                [] response.urgency = "this_week" -> today + 7
                [] OTHER -> today + 14
      band == CASE response.preferredTimeRange = "morning" -> 9..11
                [] response.preferredTimeRange = "evening" -> 17..20
                [] OTHER -> 12..16
      blocked(d, h) ==
        \E b \in DOMAIN bookings :
          /\ bookings[b].appointmentDate = d
          /\ bookings[b].status \in {"scheduled", "confirmed"}
          /\ bookings[b].appointmentTime \div 60 <= h
          /\ h < bookings[b].appointmentTime \div 60 + CeilHours(response.serviceDuration)
  IN  {c \in (first..last) \X band : ~blocked(c[1], c[2])}

\* C24: the candidates of suggest_times are exactly the pairs (d, h) with d in
\* the urgency range counted from today, h in the preferred band and no
\* same-day blocking booking with bookingHour <= h < bookingHour +
\* ceil(requested duration / 60), each enumerated once.
C24_CandidateSet ==
  response.tool = "suggest_times" =>
    /\ {<<c.date, c.hour>> : c \in SeqElems(response.candidates)} = ClaimedCandidates
    /\ Len(response.candidates) = Cardinality(ClaimedCandidates)

\* what check_availability answers for one date over the same bookings and
\* for the service type of the suggest_times call that answered last
CheckedSlots(date) ==
  SeqElems(CheckAvailabilityResult(bookings, date, Absent, response.serviceType,
                                   response.now, response.zone).slots)

\* C28: over the same bookings and for the same service type, every (date,
\* hour) that suggest_times returns is a slot that check_availability for that
\* date generates and reports available.
C28_SuggestionsAreAvailable ==
  response.tool = "suggest_times" =>
    \A s \in SeqElems(response.suggestions) :
      \E slot \in CheckedSlots(s.date) :
        slot.date = s.date /\ slot.hour = s.hour /\ slot.available

\* C15: the score of a suggested slot is 100, plus 20 exactly when the caller
\* supplied a preferred-weekday list that contains the slot's weekday, plus
\* max(0, 30 - 5 * daysFromToday) exactly when urgency is asap, plus 10 exactly
\* when the hour is 17 or 18.
C15_ScoreAsClaimed ==
  response.tool = "suggest_times" =>
    \A i \in 1..Len(response.suggestions) :
      LET slot == response.suggestions[i]
          daysFromToday == slot.date - response.today
          preferred == /\ response.preferredDays.given
                       /\ DayName(slot.date) \in response.preferredDays.days
      IN  slot.score =
            100 + (IF preferred THEN 20 ELSE 0)
                + (IF response.urgency = "asap" /\ 30 - 5 * daysFromToday > 0
                     THEN 30 - 5 * daysFromToday ELSE 0)
                + (IF slot.hour \in {17, 18} THEN 10 ELSE 0)

(***************************************************************************)
(* The scheduler's calculators over an empty store.                        *)
(***************************************************************************)
InitRebook ==
  /\ bookings = <<>>
  /\ customers = [c \in CustomerIds |-> NewCustomerDoc]
  /\ ledger = <<>>
  /\ calls = <<>>
  /\ response = NoResponse

NextRebook ==
  \/ SuggestRebooking
  \/ CheckAvailability

SpecRebook == InitRebook /\ [][NextRebook]_vars

\* the interval table as the claim states it
ClaimedInterval(frequency) ==
  CASE frequency = "weekly" -> 7
    [] frequency = "biweekly" -> 14
    [] frequency = "monthly" -> 30
    [] frequency = NoValue -> 30
    [] frequency = "every_1.5_months" -> 45
    [] frequency = "every_2_months" -> 60
    [] frequency = "quarterly" -> 90

\* C14: suggest_rebooking returns lastBookingDate + interval days, or today + 7
\* days when that date is earlier than the current time ("today" taken as the
\* date of the current time either in UTC or on the host's clock).
C14_RebookingDate ==
  response.tool = "suggest_rebooking" =>
    LET expected == response.lastBookingDate + ClaimedInterval(response.frequency)
        todayUtc == response.now \div HoursPerDay
        todayLocal == ToLocal(response.zone, response.now) \div HoursPerDay
    IN  IF expected * HoursPerDay < response.now
          THEN response.suggestedDate \in {todayUtc + 7, todayLocal + 7}
          ELSE response.suggestedDate = expected

\* C18: the season comes from the current calendar month only, never from the
\* queried date: months 11, 12, 1, 2, 3 are winter, 5 to 9 summer, 4 and 10
\* shoulder; the suggested location is wash_bay in winter and customer_home
\* otherwise, and suggest_rebooking adds the wash-bay note exactly in winter.
C18_SeasonFromCurrentMonth ==
  response.tool \in {"suggest_rebooking", "check_availability"} =>
    LET month == MonthOf(ToLocal(response.zone, response.now) \div HoursPerDay)
        claimed == IF month \in {11, 12, 1, 2, 3} THEN "winter"
                   ELSE IF month \in 5..9 THEN "summer" ELSE "shoulder"
    IN  /\ response.season = claimed
        /\ response.tool = "suggest_rebooking" =>
             (response.locationNote <=> claimed = "winter")
        /\ response.tool = "check_availability" =>
             response.suggestedLocation =
               (IF claimed = "winter" THEN "wash_bay" ELSE "customer_home")

\* a January date queried in July: summer, customer_home
C18_Witness ==
  /\ response.tool = "check_availability"
  /\ MonthOf(response.date) = 1
  /\ MonthOf(response.now \div HoursPerDay) = 7
  /\ response.season = "summer"
  /\ response.suggestedLocation = "customer_home"

(***************************************************************************)
(* sahr-finance-sync                                                       *)
(***************************************************************************)
PAYMENT_ACCOUNTS ==
  ("etransfer" :> "sahr-etransfer") @@ ("e-transfer" :> "sahr-etransfer") @@
  ("stripe" :> "sahr-stripe") @@ ("cash" :> "sahr-cash") @@
  ("debit" :> "sahr-debit") @@ ("credit" :> "sahr-debit")

defaultAccount == "sahr-etransfer"

\* PAYMENT_ACCOUNTS[paymentMethod.toLowerCase()] || config.defaultAccount, where
\* paymentMethod = first || second || "etransfer"
AccountId(first, second) ==
  LET paymentMethod == IF first # NoValue THEN first
                       ELSE IF second # NoValue THEN second ELSE "etransfer"
  IN  IF paymentMethod \in DOMAIN PAYMENT_ACCOUNTS
        THEN PAYMENT_ACCOUNTS[paymentMethod] ELSE defaultAccount

\* params.overrideAmount || booking.price
SyncAmount(overrideAmount, price) ==
  IF overrideAmount # Absent /\ overrideAmount # 0 THEN overrideAmount ELSE price

\* booking.tipAmount && booking.tipAmount > 0
HasTip(booking) == booking.tipAmount # Absent /\ booking.tipAmount > 0

\* the "already synced" test of sahr_finance_sync_booking
AlreadySynced(booking) == booking.financeSynced /\ booking.financeTransactionId # 0

\* Variant: a bulk sync that never takes a booking for synced
BulkNeverSynced(booking) == FALSE

\* the "already synced" test of sahr_finance_bulk_sync
BulkAlreadySynced(booking) == booking.financeSynced

ServiceTransaction(bookingId, booking, amount, accountId) ==
  [date |-> booking.appointmentDate, amount |-> amount, accountId |-> accountId,
   category |-> "auto-detailing", bookingId |-> bookingId]

TipTransaction(bookingId, booking, accountId) ==
  [date |-> booking.appointmentDate, amount |-> booking.tipAmount, accountId |-> accountId,
   category |-> "tips", bookingId |-> bookingId]

\* addDoc rejects a document with an undefined field value (here: date or amount
\* read from a booking that has no appointmentDate or no price)
AddDocOk(transaction) == transaction.date # Absent /\ transaction.amount # Absent

\* Variant: a ledger that keeps one transaction per booking and category
AddTransactionOnce(led, transaction) ==
  IF \E i \in 1..Len(led) :
       led[i].bookingId = transaction.bookingId /\ led[i].category = transaction.category
    THEN led ELSE Append(led, transaction)

\* addDoc(transactionsRef, transaction): the new document's id is its position
AddTransaction(led, transaction) == Append(led, transaction)

\* Variant: a flag update that names a transaction not yet written
SyncedFieldsAhead(txDocId) ==
  [hasFinanceSynced |-> TRUE, financeSynced |-> TRUE, financeTransactionId |-> txDocId + 1]

\* updateDoc(bookingRef, { financeSynced: true, financeTransactionId: txDocRef.id, ... })
SyncedFields(txDocId) ==
  [hasFinanceSynced |-> TRUE, financeSynced |-> TRUE, financeTransactionId |-> txDocId]

\* One whole sahr_finance_sync_booking call with no write rejected by the network:
\* the store and ledger it leaves and what it returns.
SyncBookingOutcome(store, led, bookingId, overrideAmount, paymentMethod) ==
  LET base == [bookings |-> store, ledger |-> led, thrown |-> FALSE, posted |-> <<>>]
  IN
  IF ~Exists(store, bookingId) THEN [base EXCEPT !.thrown = FALSE] @@ [result |-> "not_found"]
  ELSE
    LET booking == store[bookingId]
        accountId == AccountId(paymentMethod, booking.paymentMethod)
        amount == SyncAmount(overrideAmount, booking.price)
        transaction == ServiceTransaction(bookingId, booking, amount, accountId)
        tipTransaction == TipTransaction(bookingId, booking, accountId)
        txDocId == Len(led) + 1
        posted == IF HasTip(booking) THEN <<transaction, tipTransaction>> ELSE <<transaction>>
    IN  IF AlreadySynced(booking) THEN base @@ [result |-> "already_synced"]
        ELSE IF ~AddDocOk(transaction)
          THEN [base EXCEPT !.thrown = TRUE] @@ [result |-> "thrown"]
          ELSE [bookings |-> UpdateDoc(store, bookingId, SyncedFields(txDocId)),
                ledger |-> led \o posted,
                thrown |-> FALSE, posted |-> posted, result |-> "synced"]

SyncIds == SeedIds \cup CrmIds \cup MissingIds
SyncOverrides == {Absent, 0, 150}
SyncPaymentMethods == {NoValue, "cash"}

SyncBooking ==
  \E bookingId \in SyncIds, overrideAmount \in SyncOverrides,
     paymentMethod \in SyncPaymentMethods :
    LET out == SyncBookingOutcome(bookings, ledger, bookingId, overrideAmount, paymentMethod)
    IN  /\ Len(out.ledger) <= MaxTx
        /\ bookings' = out.bookings
        /\ ledger' = out.ledger
        /\ response' = [tool |-> "sync_booking", thrown |-> out.thrown,
                        result |-> out.result, bookingId |-> bookingId,
                        overrideAmount |-> overrideAmount, paymentMethod |-> paymentMethod,
                        before |-> IF Exists(bookings, bookingId)
                                     THEN <<bookings[bookingId]>> ELSE <<>>,
                        posted |-> out.posted]
        /\ UNCHANGED <<customers, calls>>

\* Variant: a bulk sync that drops the error entry of an id it could not sync
BulkFailedSilently(rest, bookingId, error) == rest

\* results.push({ bookingId, success: false, error }) in front of what the rest of
\* the loop pushes: the loop goes on after a failed id
BulkFailed(rest, bookingId, error) ==
  [rest EXCEPT !.results =
     <<[bookingId |-> bookingId, success |-> FALSE, error |-> error]>> \o @]

\* One pass of the for loop of sahr_finance_bulk_sync over bookingIds[i..]: the
\* try block of one id, then the rest of the list.  faults[i] names the write
\* of the i-th id that is rejected ("none" when all of them succeed); a
\* rejected write throws into the catch block, which pushes a failure entry
\* and goes on, whatever the try block had written before.
RECURSIVE BulkSyncFrom(_, _, _, _, _, _)
BulkSyncFrom(store, led, bookingIds, i, defaultPaymentMethod, faults) ==
  IF i > Len(bookingIds)
    THEN [bookings |-> store, ledger |-> led, results |-> <<>>,
          totalSynced |-> 0, totalAmount |-> 0]
  ELSE
    LET bookingId == bookingIds[i]
        failed(store2, led2, error) ==
          BulkFailed(BulkSyncFrom(store2, led2, bookingIds, i + 1, defaultPaymentMethod, faults),
                     bookingId, error)
    IN  IF ~Exists(store, bookingId) THEN failed(store, led, "Not found")
        ELSE
          LET booking == store[bookingId]
              accountId == AccountId(booking.paymentMethod, defaultPaymentMethod)
              transaction ==
                ServiceTransaction(bookingId, booking, booking.price, accountId)
              tipTx == TipTransaction(bookingId, booking, accountId)
              txDocId == Len(led) + 1
              flagged == UpdateDoc(store, bookingId, SyncedFields(txDocId))
              posted == IF HasTip(booking) THEN <<transaction, tipTx>> ELSE <<transaction>>
          IN  IF BulkAlreadySynced(booking) THEN failed(store, led, "Already synced")
              ELSE IF ~AddDocOk(transaction) \/ faults[i] = "add_tx"
                THEN failed(store, led, "thrown")
              ELSE IF faults[i] = "update_booking"
                THEN failed(store, led \o <<transaction>>, "thrown")
              ELSE IF faults[i] = "add_tip" /\ HasTip(booking)
                THEN failed(flagged, led \o <<transaction>>, "thrown")
              ELSE
                LET rest == BulkSyncFrom(flagged, led \o posted, bookingIds, i + 1,
                                         defaultPaymentMethod, faults)
                IN  [rest EXCEPT
                       !.results =
                         <<[bookingId |-> bookingId, success |-> TRUE, error |-> "none"]>> \o @,
                       !.totalSynced = @ + 1,
                       !.totalAmount =
                         @ + booking.price + (IF HasTip(booking) THEN booking.tipAmount ELSE 0)]

BulkIds == SeedIds \cup MissingIds
BulkLists == UNION {[1..n -> BulkIds] : n \in 1..MaxBulk}
BulkPaymentMethods == {NoValue}

\* the response of a bulk_sync call
BulkResponse(bookingIds, out) ==
  [tool |-> "bulk_sync", thrown |-> FALSE, bookingIds |-> bookingIds,
   results |-> out.results, totalSynced |-> out.totalSynced,
   totalAmount |-> out.totalAmount]

\* sahr_finance_bulk_sync with no write rejected
BulkSync ==
  \E bookingIds \in BulkLists, defaultPaymentMethod \in BulkPaymentMethods :
    LET faults == [i \in 1..Len(bookingIds) |-> "none"]
        out == BulkSyncFrom(bookings, ledger, bookingIds, 1, defaultPaymentMethod, faults)
    IN  /\ Len(out.ledger) <= MaxTx
        /\ bookings' = out.bookings
        /\ ledger' = out.ledger
        /\ response' = BulkResponse(bookingIds, out)
        /\ UNCHANGED <<customers, calls>>

\* sahr_finance_bulk_sync with, for one id of the list, one awaited write
\* rejected: addDoc of the service transaction, updateDoc of the booking or
\* addDoc of the tip transaction
BulkSyncRejected ==
  \E bookingIds \in BulkLists, defaultPaymentMethod \in BulkPaymentMethods :
    \E faults \in [1..Len(bookingIds) -> {"none", "add_tx", "update_booking", "add_tip"}] :
      LET out == BulkSyncFrom(bookings, ledger, bookingIds, 1, defaultPaymentMethod, faults)
      IN  /\ Cardinality({i \in 1..Len(bookingIds) : faults[i] # "none"}) = 1
          /\ Len(out.ledger) <= MaxTx
          /\ bookings' = out.bookings
          /\ ledger' = out.ledger
          /\ response' = BulkResponse(bookingIds, out)
          /\ UNCHANGED <<customers, calls>>

\* sahr_finance_list_unsynced: where("status", "==", "completed"),
\* where("financeSynced", "in", [false, null]), orderBy("appointmentDate", "desc"),
\* limit(params.limit || 20).  A document without the financeSynced field, or
\* without the appointmentDate field the query orders by, is not in the result.
ListUnsyncedResult(store, limit) ==
  LET matching == {id \in DOMAIN store :
                     /\ store[id].status = "completed"
                     /\ store[id].hasFinanceSynced
                     /\ ~store[id].financeSynced
                     /\ store[id].appointmentDate # Absent}
      After(a, b) == \/ store[a].appointmentDate > store[b].appointmentDate
                     \/ (store[a].appointmentDate = store[b].appointmentDate /\ a > b)
      RECURSIVE Descending(_)
      Descending(ids) ==
        IF ids = {} THEN <<>>
        ELSE LET first == CHOOSE a \in ids : \A b \in ids \ {a} : After(a, b)
             IN  <<first>> \o Descending(ids \ {first})
      ordered == Descending(matching)
      max == IF limit # Absent /\ limit # 0 THEN limit ELSE 20
      unsyncedBookings == SubSeq(ordered, 1, IF Len(ordered) < max THEN Len(ordered) ELSE max)
  IN  [tool |-> "list_unsynced", thrown |-> FALSE, limit |-> limit,
       unsyncedBookings |-> unsyncedBookings]

ListLimits == {Absent, 1}

ListUnsynced ==
  /\ \E limit \in ListLimits : response' = ListUnsyncedResult(bookings, limit)
  /\ UNCHANGED <<bookings, customers, ledger, calls>>

(***************************************************************************)
(* sahr_finance_record_tip, sahr_finance_record_expense and                *)
(* sahr_finance_revenue_report                                             *)
(***************************************************************************)
\* Math.abs
Abs(n) == IF n < 0 THEN 0 - n ELSE n

\* params.date || new Date().toISOString().split("T")[0]
DateOrToday(date, today) == IF date # Absent THEN date ELSE today

\* the transaction of sahr_finance_record_tip: amount: params.amount
RecordedTip(amount, date, paymentMethod) ==
  [date |-> date, amount |-> amount, accountId |-> AccountId(paymentMethod, NoValue),
   category |-> "tips", bookingId |-> 0]

\* the transaction of sahr_finance_record_expense: amount: -Math.abs(params.amount)
RecordedExpense(amount, category, date) ==
  [date |-> date, amount |-> 0 - Abs(amount), accountId |-> defaultAccount,
   category |-> category, bookingId |-> 0]

TipAmounts == {0 - 5, 20}
TipDates == {Absent}
ExpenseAmounts == {0 - 30, 30}
ExpenseCategories == {"supplies"}
ExpenseDates == {MaxDay}

RecordTip ==
  \E amount \in TipAmounts, date \in TipDates, today \in Clock :
    LET transaction == RecordedTip(amount, DateOrToday(date, today), NoValue)
    IN  /\ Len(ledger) < MaxTx
        /\ ledger' = AddTransaction(ledger, transaction)
        /\ response' = [tool |-> "record_tip", thrown |-> FALSE, amount |-> amount,
                        transaction |-> transaction]
        /\ UNCHANGED <<bookings, customers, calls>>

RecordExpense ==
  \E amount \in ExpenseAmounts, category \in ExpenseCategories, date \in ExpenseDates,
     today \in Clock :
    LET transaction == RecordedExpense(amount, category, DateOrToday(date, today))
    IN  /\ Len(ledger) < MaxTx
        /\ ledger' = AddTransaction(ledger, transaction)
        /\ response' = [tool |-> "record_expense", thrown |-> FALSE, amount |-> amount,
                        transaction |-> transaction]
        /\ UNCHANGED <<bookings, customers, calls>>

\* where("date", ">=", startDate), where("date", "<=", endDate)
InPeriod(t, startDate, endDate) == t.date >= startDate /\ t.date <= endDate
QueryTransactions(led, startDate, endDate) ==
  LET Match(t) == InPeriod(t, startDate, endDate) IN SelectSeq(led, Match)

\* transactions.reduce((sum, t) => sum + t.amount, 0)
RECURSIVE SumAmounts(_)
SumAmounts(transactions) ==
  IF transactions = <<>> THEN 0
  ELSE Head(transactions).amount + SumAmounts(Tail(transactions))

IsIncome(t) == t.amount > 0
IsExpense(t) == t.amount < 0
IsTip(t) == t.category = "tips"
IsService(t) == t.category = "auto-detailing"

\* Variant: expenses reported with their sign
TotalExpensesSigned(transactions) == SumAmounts(SelectSeq(transactions, IsExpense))

\* Math.abs(expenseTransactions.reduce(...))
TotalExpenses(transactions) == Abs(SumAmounts(SelectSeq(transactions, IsExpense)))

\* the metrics of sahr_finance_revenue_report
RevenueReportResult(led, startDate, endDate) ==
  LET transactions == QueryTransactions(led, startDate, endDate)
      incomeTransactions == SelectSeq(transactions, IsIncome)
      tipTransactions == SelectSeq(transactions, IsTip)
      serviceTransactions == SelectSeq(incomeTransactions, IsService)
      totalRevenue == SumAmounts(serviceTransactions)
      totalTips == SumAmounts(tipTransactions)
      totalExpenses == TotalExpenses(transactions)
      netIncome == totalRevenue + totalTips - totalExpenses
  IN  [tool |-> "revenue_report", thrown |-> FALSE,
       startDate |-> startDate, endDate |-> endDate,
       totalRevenue |-> totalRevenue, totalTips |-> totalTips,
       grossIncome |-> totalRevenue + totalTips,
       totalExpenses |-> totalExpenses, netIncome |-> netIncome,
       bookingCount |-> Len(serviceTransactions)]

ReportPeriods == {<<1, 1>>, <<1, MaxDay>>}

RevenueReport ==
  \E period \in ReportPeriods :
    /\ response' = RevenueReportResult(ledger, period[1], period[2])
    /\ UNCHANGED <<bookings, customers, ledger, calls>>

LedgerSeedDocs == {StoredBooking("full_detail", "completed", 1, 18 * 60, 100, 20)}

InitLedger ==
  /\ bookings \in StoresOf(LedgerSeedDocs)
  /\ customers = [c \in CustomerIds |-> NewCustomerDoc]
  /\ ledger = <<>>
  /\ calls = <<>>
  /\ response = NoResponse

NextLedger ==
  \/ SyncBooking
  \/ BulkSync
  \/ RecordTip
  \/ RecordExpense
  \/ RevenueReport

SpecLedger == InitLedger /\ [][NextLedger]_vars

(***************************************************************************)
(* The finance tools called one at a time, no write rejected.              *)
(***************************************************************************)
FinSeedTips == {Absent, 0, 20}
FinSeedPrices == {100}
FinSeedStatuses == {"completed", "scheduled", "cancelled"}

\* a booking as sahr_crm_create_booking leaves it: no appointmentDate field
FinCrmDocs == {CrmBookingDoc(1, "full_detail", AppointmentAt(1, 18 * 60), 100)}

FinSeedDocs ==
  {StoredBooking("full_detail", status, 1, 18 * 60, price, tipAmount) :
     status \in FinSeedStatuses, price \in FinSeedPrices, tipAmount \in FinSeedTips}
  \cup FinCrmDocs

InitFin ==
  /\ bookings \in StoresOf(FinSeedDocs)
  /\ customers = [c \in CustomerIds |-> NewCustomerDoc]
  /\ ledger = <<>>
  /\ calls = <<>>
  /\ response = NoResponse

NextFin ==
  \/ SyncBooking
  \/ BulkSync

SpecFin == InitFin /\ [][NextFin]_vars

(***************************************************************************)
(* The CRM tools and the finance sync over one store.                      *)
(***************************************************************************)
CrmSeedDocs ==
  {StoredBooking("full_detail", status, 1, 18 * 60, 100, Absent) :
     status \in {"scheduled", "completed"}}

Init ==
  /\ bookings \in StoresOf(CrmSeedDocs)
  /\ customers = [c \in CustomerIds |-> NewCustomerDoc]
  /\ ledger = <<>>
  /\ calls = <<>>
  /\ response = NoResponse

Next ==
  \/ CrmUpdateBooking
  \/ CrmUpdateCustomer
  \/ CrmGetCustomerHistory
  \/ SyncBooking

Spec == Init /\ [][Next]_vars

(***************************************************************************)
(* The CRM booking tools on their own.                                     *)
(***************************************************************************)
InitCrm ==
  /\ bookings \in StoresOf(CrmSeedDocs)
  /\ customers = [c \in CustomerIds |-> NewCustomerDoc]
  /\ ledger = <<>>
  /\ calls = <<>>
  /\ response = NoResponse

NextCrm ==
  \/ CrmCreateBooking
  \/ CrmUpdateBooking
  \/ ListUnsynced

SpecCrm == InitCrm /\ [][NextCrm]_vars

C20_CascadeStep ==
  /\ (response'.tool = "create_booking" /\ ~response'.thrown) =>
       LET b == response'.bookingId
       IN  /\ ~Exists(bookings, b)
           /\ bookings'[b].appointmentAt =
                response'.appointmentDate * MinutesPerDay + response'.appointmentTime
           /\ customers'[bookings'[b].customerId].nextAppointmentAt =
                bookings'[b].appointmentAt
  /\ (response'.tool = "update_booking" /\ response'.found /\ ~response'.thrown) =>
       LET b == response'.bookingId
           c == bookings[b].customerId
       IN  IF response'.status = "completed"
             THEN /\ bookings'[b].status = "completed"
                  /\ bookings'[b].completedAt \in NowStamps
                  /\ customers'[c].lastServiceAt >= bookings'[b].completedAt
                  /\ customers'[c].lastServiceAt <= bookings'[b].completedAt + 1
             ELSE customers'[c].lastServiceAt = customers[c].lastServiceAt

C30_NextAppointmentIsActive ==
  \A c \in DOMAIN customers :
    customers[c].nextAppointmentAt # Absent =>
      \E b \in DOMAIN bookings :
        /\ bookings[b].customerId = c
        /\ bookings[b].status \in {"scheduled", "confirmed", "in_progress"}
        /\ bookings[b].appointmentAt = customers[c].nextAppointmentAt

\* C21: list_unsynced returns, up to its limit, exactly the bookings whose
\* status is completed and that were never synced, one created and completed
\* through the CRM tools included, and no booking after its successful sync.
C21_ListsCompletedUnsynced ==
  response.tool = "list_unsynced" =>
    LET listed == {response.unsyncedBookings[i] : i \in 1..Len(response.unsyncedBookings)}
        pending == {b \in DOMAIN bookings :
                      bookings[b].status = "completed" /\ ~bookings[b].financeSynced}
        max == IF response.limit = Absent THEN 20 ELSE response.limit
    IN  /\ listed \subseteq pending
        /\ Cardinality(listed) = Len(response.unsyncedBookings)
        /\ Len(response.unsyncedBookings) =
             (IF Cardinality(pending) < max THEN Cardinality(pending) ELSE max)

(***************************************************************************)
(* Claims about the finance sync, calls made one at a time.                *)
(***************************************************************************)
ServiceTxs(b) ==
  {i \in 1..Len(ledger) :
     ledger[i].bookingId = b /\ ledger[i].category = "auto-detailing"}

TipTxs(b) ==
  {i \in 1..Len(ledger) : ledger[i].bookingId = b /\ ledger[i].category = "tips"}

\* every synced booking has exactly one service transaction and at most one tip
\* transaction, and an unsynced one has none
C5_OnePerBooking ==
  \A b \in DOMAIN bookings :
    IF bookings[b].financeSynced
      THEN Cardinality(ServiceTxs(b)) = 1 /\ Cardinality(TipTxs(b)) <= 1
      ELSE ServiceTxs(b) = {} /\ TipTxs(b) = {}

\* the transactions a step appended to the ledger
Appended == SubSeq(ledger', Len(ledger) + 1, Len(ledger'))

\* a call on a booking already flagged synced writes nothing and says so
C5_AlreadySyncedStep ==
  /\ (/\ response'.tool = "sync_booking"
      /\ Exists(bookings, response'.bookingId)
      /\ bookings[response'.bookingId].financeSynced)
       => /\ ledger' = ledger
          /\ bookings' = bookings
          /\ response'.result = "already_synced"
          /\ ~response'.thrown
  /\ response'.tool = "bulk_sync" =>
       \A i \in 1..Len(response'.bookingIds) :
         LET b == response'.bookingIds[i]
         IN  (Exists(bookings, b) /\ bookings[b].financeSynced) =>
               /\ bookings'[b] = bookings[b]
               /\ \A t \in SeqElems(Appended) : t.bookingId # b
               /\ ~response'.results[i].success
               /\ response'.results[i].error = "Already synced"
               /\ ~response'.thrown

\* C5: after any sequence of non-failing sync_booking and bulk_sync calls made one
\* at a time the ledger holds exactly one service transaction per synced booking
\* and at most one tip transaction for it; a call on an already synced booking
\* writes nothing to the ledger or the booking and answers "already synced".
C5_SyncIdempotent == []C5_OnePerBooking /\ [][C5_AlreadySyncedStep]_vars

\* the same booking id twice in one bulk call: synced once, refused once
C5_Witness ==
  /\ response.tool = "bulk_sync"
  /\ Len(response.bookingIds) = 2
  /\ response.bookingIds[1] = response.bookingIds[2]
  /\ response.results[1].success
  /\ response.results[2].error = "Already synced"
  /\ Cardinality(ServiceTxs(response.bookingIds[1])) = 1
  /\ Cardinality(TipTxs(response.bookingIds[1])) = 1

\* what bulk_sync does with the id at position i of its list, from the store the
\* call started on: synced exactly when the document exists, is not flagged
\* synced, can be written, and no earlier position synced the same id
BulkShouldSync(ids, i) ==
  /\ Exists(bookings, ids[i])
  /\ ~bookings[ids[i]].financeSynced
  /\ AddDocOk(ServiceTransaction(ids[i], bookings[ids[i]], bookings[ids[i]].price, NoValue))
  /\ \A j \in 1..(i - 1) : ids[j] # ids[i]

C11_BulkStep ==
  response'.tool = "bulk_sync" =>
    LET ids == response'.bookingIds
        res == response'.results
    IN  /\ ~response'.thrown
        /\ Len(res) = Len(ids)
        /\ \A i \in 1..Len(ids) :
             /\ res[i].bookingId = ids[i]
             /\ res[i].success <=> BulkShouldSync(ids, i)
             /\ res[i].success =>
                  /\ bookings'[ids[i]].financeSynced
                  /\ \E t \in SeqElems(Appended) :
                       t.bookingId = ids[i] /\ t.category = "auto-detailing"
             /\ ~res[i].success => res[i].error \in {"Not found", "Already synced", "thrown"}

\* C11: bulk_sync gives one result entry per input id in input order; an id that
\* is not found, already synced or whose write throws gets an error entry and
\* every later id that can be synced is still synced.
C11_BulkIsolatesFailures == [][C11_BulkStep]_vars

\* a failing id first (of each kind), a synced id after it
C11_Witness ==
  /\ response.tool = "bulk_sync"
  /\ Len(response.bookingIds) = 2
  /\ ~response.results[1].success
  /\ response.results[1].error = "thrown"
  /\ response.results[2].success
  /\ bookings[response.bookingIds[2]].financeSynced
  /\ ServiceTxs(response.bookingIds[2]) # {}

\* the sum of the amounts of the ledger transactions at the positions in idx
RECURSIVE LedgerSum(_)
LedgerSum(idx) ==
  IF idx = {} THEN 0
  ELSE LET i == CHOOSE j \in idx : TRUE IN ledger[i].amount + LedgerSum(idx \ {i})

\* the positions of the ledger transactions dated within the reported period
Reported ==
  {i \in 1..Len(ledger) :
     ledger[i].date >= response.startDate /\ ledger[i].date <= response.endDate}

\* C12: the revenue report has grossIncome = serviceRevenue + tips and
\* netIncome = grossIncome - expenses, where serviceRevenue sums the positive
\* auto-detailing amounts of the period, tips sums the amounts of category tips
\* and expenses is the absolute value of the sum of the negative amounts.
C12_ReportArithmetic ==
  response.tool = "revenue_report" =>
    LET serviceRevenue ==
          LedgerSum({i \in Reported :
                       ledger[i].amount > 0 /\ ledger[i].category = "auto-detailing"})
        tips == LedgerSum({i \in Reported : ledger[i].category = "tips"})
        negative == LedgerSum({i \in Reported : ledger[i].amount < 0})
        expenses == IF negative < 0 THEN 0 - negative ELSE negative
    IN  /\ response.totalRevenue = serviceRevenue
        /\ response.totalTips = tips
        /\ response.totalExpenses = expenses
        /\ response.grossIncome = serviceRevenue + tips
        /\ response.netIncome = response.grossIncome - expenses

\* C29: the netIncome of revenue_report is the signed sum of the amounts of
\* all the transactions of the period that the plugin's tools have written.
C29_NetIsSignedSum ==
  response.tool = "revenue_report" => response.netIncome = LedgerSum(Reported)

\* a report over a period with service revenue, tips and expenses in it and a
\* transaction outside it
C12_Witness ==
  /\ response.tool = "revenue_report"
  /\ response.totalRevenue > 0
  /\ response.totalTips > 0
  /\ response.totalExpenses > 0
  /\ Reported # 1..Len(ledger)

\* C13: every ledger transaction is correctly signed: record_expense stores
\* -|amount| whatever the sign of its input, and every transaction of
\* sync_booking, bulk_sync and record_tip (categories auto-detailing and tips)
\* has a positive amount.
C13_SignedTransactions ==
  /\ response.tool = "record_expense" =>
       /\ response.transaction.amount <= 0
       /\ response.transaction.amount =
            (IF response.amount < 0 THEN response.amount ELSE 0 - response.amount)
       /\ ledger[Len(ledger)] = response.transaction
  /\ \A i \in 1..Len(ledger) :
       /\ ledger[i].category \in ExpenseCategories => ledger[i].amount <= 0
       /\ ledger[i].category \in {"auto-detailing", "tips"} => ledger[i].amount > 0

\* the booking a sync_booking call read, when the call synced it
SyncedCall == response.tool = "sync_booking" /\ response.result = "synced"
Before == response.before[1]

\* C7: sync_booking on an unsynced booking posts one service transaction whose
\* amount is the override amount when one is supplied and the booking price
\* otherwise, and a tip transaction of amount tipAmount exactly when tipAmount > 0,
\* with the date and account of the service transaction.
C7_PostedTransactions ==
  SyncedCall =>
    LET b == response.bookingId
        claimed == IF response.overrideAmount # Absent
                     THEN response.overrideAmount ELSE Before.price
    IN  /\ Cardinality(ServiceTxs(b)) = 1
        /\ \A i \in ServiceTxs(b) :
             /\ ledger[i].amount = claimed
             /\ \A j \in TipTxs(b) :
                  /\ ledger[j].amount = Before.tipAmount
                  /\ ledger[j].date = ledger[i].date
                  /\ ledger[j].accountId = ledger[i].accountId
        /\ Cardinality(TipTxs(b)) = (IF Before.tipAmount > 0 THEN 1 ELSE 0)

\* C9: the ledger holds transactions only of bookings whose status is completed.
C9_OnlyCompletedPosted ==
  \A i \in 1..Len(ledger) : bookings[ledger[i].bookingId].status = "completed"

\* C8: a tip recorded on a booking through sahr_crm_update_booking and then
\* synced with sync_booking gives a tip transaction of that amount.
C8_RecordedTipIsPosted ==
  (SyncedCall /\ Before.tip > 0) =>
    \E j \in TipTxs(response.bookingId) : ledger[j].amount = Before.tip

\* C10: an id absent from the store gives a normal response, never a thrown
\* fault, from sync_booking, get_customer_history, update_booking and
\* update_customer.
C10_NotFoundIsText ==
  /\ (response.tool = "sync_booking" /\ ~Exists(bookings, response.bookingId))
       => ~response.thrown /\ response.result = "not_found"
  /\ (response.tool \in {"update_booking", "update_customer", "get_customer_history"}
        /\ ~response.found)
       => ~response.thrown

(***************************************************************************)
(* sahr_finance_sync_booking step by step: each await is one step, so two  *)
(* invocations interleave between their reads and writes, and a write can  *)
(* be rejected.                                                            *)
(***************************************************************************)
Callers == {1, 2}
ConcIds == SeedIds \cup MissingIds
ConcSeedTips == {Absent, 20}

ConcSeedDocs ==
  {StoredBooking("full_detail", "completed", 1, 18 * 60, 100, tipAmount) :
     tipAmount \in ConcSeedTips}

IdleCall == [pc |-> "idle", result |-> "none", bookingId |-> 0]

Returned(bookingId, result) == [pc |-> "done", result |-> result, bookingId |-> bookingId]

\* the ledger documents a call may still write
Need(call) ==
  CASE call.pc = "add_tx" -> 2
    [] call.pc \in {"update_booking", "add_tip"} -> 1
    [] OTHER -> 0

RECURSIVE NeedOf(_)
NeedOf(cs) ==
  IF cs = {} THEN 0
  ELSE LET c == CHOOSE x \in cs : TRUE IN Need(calls[c]) + NeedOf(cs \ {c})

\* getDoc(bookingRef), the not-found return and the already-synced return
SyncRead(c) ==
  /\ calls[c].pc \in {"idle", "done"}
  /\ Len(ledger) + NeedOf(Callers \ {c}) + 2 <= MaxTx
  /\ \E bookingId \in ConcIds :
       calls' = [calls EXCEPT ![c] =
         IF ~Exists(bookings, bookingId) THEN Returned(bookingId, "not_found")
         ELSE IF AlreadySynced(bookings[bookingId])
           THEN Returned(bookingId, "already_synced")
           ELSE [pc |-> "add_tx", result |-> "none", bookingId |-> bookingId,
                 booking |-> bookings[bookingId],
                 accountId |-> AccountId(NoValue, bookings[bookingId].paymentMethod),
                 txDocId |-> 0]]
  /\ UNCHANGED <<bookings, customers, ledger, response>>

\* const txDocRef = await addDoc(transactionsRef, transaction)
SyncAddTransaction(c) ==
  LET call == calls[c]
      transaction == ServiceTransaction(call.bookingId, call.booking,
                                        SyncAmount(Absent, call.booking.price),
                                        call.accountId)
  IN  /\ call.pc = "add_tx"
      /\ AddDocOk(transaction)
      /\ ledger' = AddTransaction(ledger, transaction)
      /\ calls' = [calls EXCEPT ![c].pc = "update_booking", ![c].txDocId = Len(ledger')]
      /\ UNCHANGED <<bookings, customers, response>>

\* await updateDoc(bookingRef, { financeSynced: true, financeTransactionId, ... })
SyncUpdateBooking(c) ==
  LET call == calls[c]
  IN  /\ call.pc = "update_booking"
      /\ UpdateDocOk(bookings, call.bookingId)
      /\ bookings' = UpdateDoc(bookings, call.bookingId, SyncedFields(call.txDocId))
      /\ calls' = [calls EXCEPT ![c] =
                     IF HasTip(call.booking) THEN [call EXCEPT !.pc = "add_tip"]
                     ELSE [call EXCEPT !.pc = "done", !.result = "synced"]]
      /\ UNCHANGED <<customers, ledger, response>>

\* await addDoc(transactionsRef, tipTransaction)
SyncAddTip(c) ==
  LET call == calls[c]
  IN  /\ call.pc = "add_tip"
      /\ ledger' = AddTransaction(ledger,
                                  TipTransaction(call.bookingId, call.booking, call.accountId))
      /\ calls' = [calls EXCEPT ![c] = [call EXCEPT !.pc = "done", !.result = "synced"]]
      /\ UNCHANGED <<bookings, customers, response>>

\* an awaited write rejects: execute has no try/catch, the call throws
SyncWriteRejected(c) ==
  /\ calls[c].pc \in {"add_tx", "update_booking", "add_tip"}
  /\ calls' = [calls EXCEPT ![c] = [@ EXCEPT !.pc = "done", !.result = "thrown"]]
  /\ UNCHANGED <<bookings, customers, ledger, response>>

InitConc ==
  /\ bookings \in StoresOf(ConcSeedDocs)
  /\ customers = [c \in CustomerIds |-> NewCustomerDoc]
  /\ ledger = <<>>
  /\ calls = [c \in Callers |-> IdleCall]
  /\ response = NoResponse

NextConc ==
  \E c \in Callers :
    \/ SyncRead(c)
    \/ SyncAddTransaction(c)
    \/ SyncUpdateBooking(c)
    \/ SyncAddTip(c)
    \/ SyncWriteRejected(c)

SpecConc == InitConc /\ [][NextConc]_vars

\* bulk syncs whose writes may be rejected
SpecBulk == InitConc /\ [][BulkSync \/ BulkSyncRejected]_vars

\* both invocations ran to the end on booking b, each having read it unsynced
BothSynced(b) ==
  \A c \in Callers :
    /\ calls[c].pc = "done"
    /\ calls[c].result = "synced"
    /\ calls[c].bookingId = b
    /\ ~calls[c].booking.financeSynced

\* C6: two concurrent sync_booking invocations on one unsynced booking that both
\* read financeSynced as unset both post: whenever both have returned "synced"
\* for the same booking, the ledger holds two service transactions for it.
C6_RaceDoublePosts ==
  \A b \in DOMAIN bookings : BothSynced(b) => Cardinality(ServiceTxs(b)) >= 2

\* the double post is reached
C6_Witness ==
  \E b \in DOMAIN bookings :
    /\ BothSynced(b)
    /\ Cardinality(ServiceTxs(b)) = 2
    /\ bookings[b].financeSynced

\* the ids of a bulk_sync answer that have a failure entry and no success entry
BulkFailedIds(res) ==
  {res[i].bookingId : i \in {k \in 1..Len(res) : ~res[k].success}}
    \ {res[i].bookingId : i \in {k \in 1..Len(res) : res[k].success}}

\* C27: in a bulk_sync call, a booking whose result entries all have success =
\* false had no transaction posted for it by the call and kept its
\* financeSynced flag; totalSynced is the number of success entries and
\* totalAmount the sum of the amounts of the transactions the call posted.
C27_BulkStep ==
  response'.tool = "bulk_sync" =>
    LET res == response'.results
    IN  /\ \A b \in BulkFailedIds(res) :
             /\ \A t \in SeqElems(Appended) : t.bookingId # b
             /\ Exists(bookings, b) =>
                  bookings'[b].financeSynced = bookings[b].financeSynced
        /\ response'.totalSynced = Cardinality({k \in 1..Len(res) : res[k].success})
        /\ response'.totalAmount = SumAmounts(Appended)

C27_BulkFailuresWriteNothing == [][C27_BulkStep]_vars

\* C25: a booking flagged synced names, in financeTransactionId, an existing
\* ledger transaction that was posted for that booking, in every state of
\* interleaved sync_booking calls, rejected writes included.
C25_FlagNamesTransaction ==
  \A b \in DOMAIN bookings :
    bookings[b].financeSynced =>
      /\ bookings[b].financeTransactionId \in 1..Len(ledger)
      /\ ledger[bookings[b].financeTransactionId].bookingId = b
      /\ ledger[bookings[b].financeTransactionId].category = "auto-detailing"

\* a booking flagged by the second of two interleaved calls, after a call on
\* it had a write rejected
C25_Witness ==
  \E b \in DOMAIN bookings :
    /\ bookings[b].financeSynced
    /\ bookings[b].financeTransactionId > 1
    /\ \E c \in Callers : calls[c].result = "thrown" /\ calls[c].bookingId = b
    /\ \E c \in Callers : calls[c].result = "synced" /\ calls[c].bookingId = b

\* C26: with one caller making its calls one after the other, once a
\* sync_booking call on a booking has returned without error, the ledger holds
\* exactly one service transaction for the booking and, when its tipAmount is
\* positive, exactly one tip transaction, whatever writes of earlier calls on
\* it were rejected.
C26_RetryPostsOnce ==
  \A c \in Callers :
    (/\ \A other \in Callers \ {c} : calls[other] = IdleCall
     /\ calls[c].pc = "done"
     /\ calls[c].result \in {"synced", "already_synced"}
     /\ Exists(bookings, calls[c].bookingId))
      => LET b == calls[c].bookingId
         IN  /\ Cardinality(ServiceTxs(b)) = 1
             /\ HasTip(bookings[b]) => Cardinality(TipTxs(b)) = 1

====
